---- MODULE Spec2Model ----
(***************************************************************************)
(* A model of GraphExample.py: the edge-list graph Graph1, the adjacency-  *)
(* dict graph Graph2, their mutators and queries, the two connectivity     *)
(* algorithms and the copy operations.                                     *)
(*                                                                         *)
(* Conventions.  A Python list is a sequence; a dict is a function whose   *)
(* DOMAIN is its key set; a dict of small ints is iterated in ascending    *)
(* key order (CPython 2).  A call's outcome is a string: "True", "False",  *)
(* "None" for a normal return, "KeyError" or "ValueError" for an exception *)
(* that leaves the method.  An exception leaves the object as mutated up   *)
(* to the raising statement.                                               *)
(***************************************************************************)
EXTENDS Integers, Sequences, FiniteSets, TLC

\* Vertex names used as operation arguments: 1..MaxVal.
MaxVal == 3
\* Longest vertex list and edge list handed to a constructor.
MaxInitVerts == 2
MaxInitEdges == 2
\* Number of mutator calls in one run.
MaxOps == 3

Vals == 1..MaxVal

VARIABLES vertices, edges, graph, op, used, nops, heap, src, cpy, g2, frame, file

vars == <<vertices, edges, graph, op, used, nops, heap, src, cpy, g2, frame, file>>

----------------------------------------------------------------------------
(* Python built-ins *)

Min(a, b) == IF a <= b THEN a ELSE b

Max(a, b) == IF a >= b THEN a ELSE b

\* x in s
InSeq(x, s) == \E i \in 1..Len(s) : s[i] = x

SeqSet(s) == {s[i] : i \in 1..Len(s)}

\* s.remove(x) for x in s: the first occurrence goes.
RemoveFirst(s, x) ==
    LET i == CHOOSE k \in 1..Len(s) : s[k] = x /\ \A j \in 1..(k-1) : s[j] # x
    IN  SubSeq(s, 1, i-1) \o SubSeq(s, i+1, Len(s))

\* Iteration order of a dict of small ints: ascending keys.
RECURSIVE SortedKeys(_)
SortedKeys(S) ==
    IF S = {} THEN <<>>
    ELSE LET m == CHOOSE x \in S : \A y \in S : x <= y
         IN  <<m>> \o SortedKeys(S \ {m})

\* d[k] = val, adding the key when it is new.
DictSet(d, k, val) == [x \in (DOMAIN d) \cup {k} |-> IF x = k THEN val ELSE d[x]]

\* del d[k]
DictDel(d, k) == [x \in (DOMAIN d) \ {k} |-> d[x]]

Bool(b) == IF b THEN "True" ELSE "False"

----------------------------------------------------------------------------
(* Graph1: a list of vertices and a list of (min, max) pairs.  A Graph1    *)
(* value is a record [vertices, edges].                                    *)

G1Init(vs, es) ==
    [vertices |-> vs,
     edges    |-> [i \in 1..Len(es) |-> <<Min(es[i][1], es[i][2]), Max(es[i][1], es[i][2])>>]]

G1len(g) == Len(g.vertices)

G1hasVertex(g, a) == InSeq(a, g.vertices)

G1hasEdge(g, a, b) == InSeq(<<Min(a, b), Max(a, b)>>, g.edges)

G1addVertex(g, a) == [g |-> [g EXCEPT !.vertices = Append(@, a)], ret |-> "None"]

G1addVertexCleanly(g, a) ==
    IF ~InSeq(a, g.vertices)
    THEN [g |-> [g EXCEPT !.vertices = Append(@, a)], ret |-> "True"]
    ELSE [g |-> g, ret |-> "False"]

G1deleteVertex(g, a) ==
    IF InSeq(a, g.vertices)
    THEN [g |-> [vertices |-> RemoveFirst(g.vertices, a),
                 edges    |-> SelectSeq(g.edges, LAMBDA ee : ee[1] # a /\ ee[2] # a)],
          ret |-> "None"]
    ELSE [g |-> g, ret |-> "None"]

G1addEdge(g, a, b) ==
    LET e == <<Min(a, b), Max(a, b)>>
        inA == InSeq(a, g.vertices)
        inB == InSeq(b, g.vertices)
        vs == IF inA /\ inB THEN g.vertices
              ELSE IF inA THEN Append(g.vertices, b)
              ELSE IF inB THEN Append(g.vertices, a)
              ELSE Append(Append(g.vertices, a), b)
    IN  IF ~G1hasEdge(g, a, b)
        THEN [g |-> [vertices |-> vs, edges |-> Append(g.edges, e)], ret |-> "True"]
        ELSE [g |-> g, ret |-> "False"]

G1deleteEdge(g, a, b) ==
    LET e == <<Min(a, b), Max(a, b)>>
    IN  IF InSeq(e, g.edges)
        THEN [g |-> [g EXCEPT !.edges = RemoveFirst(@, e)], ret |-> "None"]
        ELSE [g |-> g, ret |-> "None"]

----------------------------------------------------------------------------
(* Graph2: a dict from vertex to the list of its neighbours.  A Graph2     *)
(* value is that dict.                                                     *)

RECURSIVE G2InitLoop(_, _, _)
G2InitLoop(d, es, i) ==
    IF i > Len(es) THEN [g |-> d, ret |-> "None"]
    ELSE LET a == es[i][1]
             b == es[i][2]
         IN  IF a \notin DOMAIN d THEN [g |-> d, ret |-> "KeyError"]
             ELSE LET d1 == [d EXCEPT ![a] = Append(@, b)]
                  IN  IF b \notin DOMAIN d1 THEN [g |-> d1, ret |-> "KeyError"]
                      ELSE G2InitLoop([d1 EXCEPT ![b] = Append(@, a)], es, i + 1)

G2Init(vs, es) == G2InitLoop([v \in SeqSet(vs) |-> <<>>], es, 1)

G2len(d) == Cardinality(DOMAIN d)

G2vertices(d) == SortedKeys(DOMAIN d)

RECURSIVE G2edgesFrom(_, _, _)
G2edgesFrom(d, keys, i) ==
    IF i > Len(keys) THEN <<>>
    ELSE LET u == keys[i]
             nb == SelectSeq(d[u], LAMBDA v : u < v)
         IN  [j \in 1..Len(nb) |-> <<u, nb[j]>>] \o G2edgesFrom(d, keys, i + 1)

G2edges(d) == G2edgesFrom(d, SortedKeys(DOMAIN d), 1)

G2hasVertex(d, a) == a \in DOMAIN d

G2hasEdge(d, a, b) == a \in DOMAIN d /\ InSeq(b, d[a])

G2addVertex(d, a) == [g |-> DictSet(d, a, <<>>), ret |-> "None"]

G2addVertexCleanly(d, a) ==
    IF a \notin DOMAIN d
    THEN [g |-> DictSet(d, a, <<>>), ret |-> "True"]
    ELSE [g |-> d, ret |-> "False"]

\* The loop of deleteVertex over otherVerts, from position i on.
RECURSIVE G2deleteVertexLoop(_, _, _, _)
G2deleteVertexLoop(d, otherVerts, i, a) ==
    IF i > Len(otherVerts) THEN [g |-> d, ret |-> "None"]
    ELSE LET xx == otherVerts[i]
         IN  IF xx \notin DOMAIN d THEN [g |-> d, ret |-> "None"]
             ELSE IF ~InSeq(a, d[xx]) THEN [g |-> d, ret |-> "ValueError"]
             ELSE G2deleteVertexLoop([d EXCEPT ![xx] = RemoveFirst(@, a)],
                                     otherVerts, i + 1, a)

G2deleteVertex(d, a) ==
    IF a \notin DOMAIN d THEN [g |-> d, ret |-> "None"]
    ELSE G2deleteVertexLoop(DictDel(d, a), d[a], 1, a)

G2addEdge(d, a, b) ==
    IF ~G2hasEdge(d, a, b)
    THEN [g |-> IF a \in DOMAIN d /\ b \in DOMAIN d
                THEN LET d1 == [d EXCEPT ![a] = Append(@, b)]
                     IN  [d1 EXCEPT ![b] = Append(@, a)]
                ELSE IF a \in DOMAIN d
                THEN DictSet([d EXCEPT ![a] = Append(@, b)], b, <<a>>)
                ELSE IF b \in DOMAIN d
                THEN LET d1 == DictSet(d, a, <<b>>)
                     IN  [d1 EXCEPT ![b] = Append(@, a)]
                ELSE DictSet(DictSet(d, a, <<b>>), b, <<a>>),
          ret |-> "True"]
    ELSE [g |-> d, ret |-> "False"]

G2deleteEdge(d, a, b) ==
    IF a \notin DOMAIN d THEN [g |-> d, ret |-> "KeyError"]
    ELSE IF ~InSeq(b, d[a]) THEN [g |-> d, ret |-> "None"]
    ELSE LET d1 == [d EXCEPT ![a] = RemoveFirst(@, b)]
         IN  IF b \notin DOMAIN d1 THEN [g |-> d1, ret |-> "KeyError"]
             ELSE IF ~InSeq(a, d1[b]) THEN [g |-> d1, ret |-> "None"]
             ELSE [g |-> [d1 EXCEPT ![b] = RemoveFirst(@, a)], ret |-> "None"]

----------------------------------------------------------------------------
(* Connectivity.  buckets is the dict vertex -> label (isConnected1) or    *)
(* vertex -> parent (isConnected2).  Each Pass operator is one execution   *)
(* of the body of "while change"; it yields the dict, the change flag and  *)
(* "KeyError" when a dict lookup fails.                                    *)

Labels(buckets) == {buckets[v] : v \in DOMAIN buckets}

\* Graph1.isConnected1: the for loop over self.edges, from position i on.
\* The inner loop gives the label of ee[0] to every vertex labelled tmp; that
\* label differs from tmp, so it does not move while the loop runs and the
\* loop is one simultaneous relabelling.
RECURSIVE G1Pass1(_, _, _, _)
G1Pass1(buckets, es, i, change) ==
    IF i > Len(es) THEN [buckets |-> buckets, change |-> change, ret |-> "None"]
    ELSE LET ee == es[i]
         IN  IF ee[1] \notin DOMAIN buckets \/ ee[2] \notin DOMAIN buckets
             THEN [buckets |-> buckets, change |-> change, ret |-> "KeyError"]
             ELSE IF buckets[ee[1]] # buckets[ee[2]]
             THEN LET tmp == buckets[ee[2]]
                  IN  G1Pass1([vv \in DOMAIN buckets |->
                                  IF buckets[vv] = tmp THEN buckets[ee[1]] ELSE buckets[vv]],
                              es, i + 1, TRUE)
             ELSE G1Pass1(buckets, es, i + 1, change)

RECURSIVE G1Loop1(_, _)
G1Loop1(buckets, es) ==
    LET r == G1Pass1(buckets, es, 1, FALSE)
    IN  IF r.ret = "None" /\ r.change THEN G1Loop1(r.buckets, es) ELSE r

\* A variant of isConnected1 whose last line reads "<= 1": the empty graph
\* counts as connected.
G1isConnected1AtMostOne(g) ==
    LET r == G1Loop1([v \in SeqSet(g.vertices) |-> v], g.edges)
    IN  IF r.ret # "None" THEN r.ret ELSE Bool(Cardinality(Labels(r.buckets)) <= 1)

G1isConnected1(g) ==
    LET r == G1Loop1([v \in SeqSet(g.vertices) |-> v], g.edges)
    IN  IF r.ret # "None" THEN r.ret ELSE Bool(Cardinality(Labels(r.buckets)) = 1)

\* find(v) of isConnected2, for v a key of buckets: the root, and buckets
\* with every vertex on the path re-parented to the root.
RECURSIVE find(_, _)
find(buckets, v) ==
    LET ff == buckets[v]
    IN  IF ff = v THEN [root |-> v, buckets |-> buckets]
        ELSE LET r == find(buckets, ff)
             IN  [root |-> r.root, buckets |-> [r.buckets EXCEPT ![v] = r.root]]

\* Graph1.isConnected2: the for loop over self.edges, from position i on.
RECURSIVE G1Pass2(_, _, _, _, _)
G1Pass2(buckets, valuesCnt, es, i, change) ==
    IF i > Len(es)
    THEN [buckets |-> buckets, valuesCnt |-> valuesCnt, change |-> change, ret |-> "None"]
    ELSE LET ee == es[i]
         IN  IF ee[1] \notin DOMAIN buckets \/ ee[2] \notin DOMAIN buckets
             THEN [buckets |-> buckets, valuesCnt |-> valuesCnt, change |-> change,
                   ret |-> "KeyError"]
             ELSE LET f == find(buckets, ee[1])
                      g == find(f.buckets, ee[2])
                  IN  IF f.root # g.root
                      THEN G1Pass2([g.buckets EXCEPT ![g.root] = f.root], valuesCnt - 1,
                                   es, i + 1, TRUE)
                      ELSE G1Pass2(g.buckets, valuesCnt, es, i + 1, change)

RECURSIVE G1Loop2(_, _, _)
G1Loop2(buckets, valuesCnt, es) ==
    LET r == G1Pass2(buckets, valuesCnt, es, 1, FALSE)
    IN  IF r.ret = "None" /\ r.change THEN G1Loop2(r.buckets, r.valuesCnt, es) ELSE r

G1isConnected2(g) ==
    LET r == G1Loop2([v \in SeqSet(g.vertices) |-> v], Len(g.vertices), g.edges)
    IN  IF r.ret # "None" THEN r.ret ELSE Bool(r.valuesCnt = 1)

\* Graph2.isConnected1: the for loop over the keys of self.graph, from
\* position i of keys on.  newComp holds the labels of the neighbours of u
\* that differ from the label of u, which therefore stays put while the
\* inner loop relabels.
RECURSIVE G2Pass1(_, _, _, _, _)
G2Pass1(buckets, d, keys, i, change) ==
    IF i > Len(keys) THEN [buckets |-> buckets, change |-> change, ret |-> "None"]
    ELSE LET u == keys[i]
         IN  IF \E j \in 1..Len(d[u]) : d[u][j] \notin DOMAIN buckets
             THEN [buckets |-> buckets, change |-> change, ret |-> "KeyError"]
             ELSE LET newComp == {buckets[d[u][j]] : j \in 1..Len(d[u])} \ {buckets[u]}
                  IN  IF newComp # {}
                      THEN G2Pass1([vv \in DOMAIN buckets |->
                                       IF buckets[vv] \in newComp THEN buckets[u]
                                       ELSE buckets[vv]],
                                   d, keys, i + 1, TRUE)
                      ELSE G2Pass1(buckets, d, keys, i + 1, change)

RECURSIVE G2Loop1(_, _)
G2Loop1(buckets, d) ==
    LET r == G2Pass1(buckets, d, SortedKeys(DOMAIN d), 1, FALSE)
    IN  IF r.ret = "None" /\ r.change THEN G2Loop1(r.buckets, d) ELSE r

G2isConnected1(d) ==
    LET r == G2Loop1([v \in DOMAIN d |-> v], d)
    IN  IF r.ret # "None" THEN r.ret ELSE Bool(Cardinality(Labels(r.buckets)) = 1)

\* The (u, v) visited by "for u in self.graph: for v in self.graph[u]".
RECURSIVE G2arcsFrom(_, _, _)
G2arcsFrom(d, keys, i) ==
    IF i > Len(keys) THEN <<>>
    ELSE LET u == keys[i]
         IN  [j \in 1..Len(d[u]) |-> <<u, d[u][j]>>] \o G2arcsFrom(d, keys, i + 1)

\* Graph2.isConnected2: the two nested for loops, from arc i on.
RECURSIVE G2Pass2(_, _, _, _, _)
G2Pass2(buckets, valuesCnt, arcs, i, change) ==
    IF i > Len(arcs)
    THEN [buckets |-> buckets, valuesCnt |-> valuesCnt, change |-> change, ret |-> "None"]
    ELSE LET u == arcs[i][1]
             v == arcs[i][2]
             f == find(buckets, u)
         IN  IF v \notin DOMAIN buckets
             THEN [buckets |-> f.buckets, valuesCnt |-> valuesCnt, change |-> change,
                   ret |-> "KeyError"]
             ELSE LET g == find(f.buckets, v)
                  IN  IF f.root # g.root
                      THEN G2Pass2([g.buckets EXCEPT ![g.root] = f.root], valuesCnt - 1,
                                   arcs, i + 1, TRUE)
                      ELSE G2Pass2(g.buckets, valuesCnt, arcs, i + 1, change)

RECURSIVE G2Loop2(_, _, _)
G2Loop2(buckets, valuesCnt, d) ==
    LET r == G2Pass2(buckets, valuesCnt, G2arcsFrom(d, SortedKeys(DOMAIN d), 1), 1, FALSE)
    IN  IF r.ret = "None" /\ r.change THEN G2Loop2(r.buckets, r.valuesCnt, d) ELSE r

G2isConnected2(d) ==
    LET r == G2Loop2([v \in DOMAIN d |-> v], Cardinality(DOMAIN d), d)
    IN  IF r.ret # "None" THEN r.ret ELSE Bool(r.valuesCnt = 1)

----------------------------------------------------------------------------
(* The program state: one Graph1 (vertices, edges) and one Graph2 (graph)  *)
(* built from the same constructor arguments and driven by the same calls. *)
(* op is the last call with its outcome on the Graph1 (ret1) and on the    *)
(* Graph2 (ret2); used is the set of mutators called so far; nops counts   *)
(* the mutator calls.                                                      *)

G1 == [vertices |-> vertices, edges |-> edges]

\* No object: the value of src, cpy and g2 where no such graph exists.
NoObject == [cls |-> "none"]

\* No call of isConnected1 or isConnected2 is running.
NoFrame == [method |-> "none"]

\* No file is part of the run.
NoFile == [state |-> "none"]

\* Sequences over S of length at most n.
SeqsUpTo(S, n) == UNION {[1..k -> S] : k \in 0..n}

IsDistinct(s) == \A i, j \in 1..Len(s) : i # j => s[i] # s[j]

\* Lists of exactly k pairs of vertices of vs, in either orientation,
\* repeats and (v, v) included.
EdgeLists(vs, k) == [1..k -> SeqSet(vs) \X SeqSet(vs)]

Construct(in) ==
    /\ vertices = G1Init(in[1], in[2]).vertices
    /\ edges = G1Init(in[1], in[2]).edges
    /\ graph = G2Init(in[1], in[2]).g
    /\ op = [name |-> "init", a |-> 0, b |-> 0,
             ret1 |-> "None", ret2 |-> G2Init(in[1], in[2]).ret]
    /\ used = {}
    /\ nops = 0
    /\ heap = <<>>
    /\ src = NoObject
    /\ cpy = NoObject
    /\ g2 = NoObject
    /\ frame = NoFrame
    /\ file = NoFile

Init ==
    \E vs \in {s \in SeqsUpTo(Vals, MaxInitVerts) : IsDistinct(s)} :
        \E k \in 0..MaxInitEdges : \E es \in EdgeLists(vs, k) : Construct(<<vs, es>>)

\* The same mutator call on both graphs.
Call(name, a, b, r1, r2) ==
    /\ nops < MaxOps
    /\ vertices' = r1.g.vertices
    /\ edges' = r1.g.edges
    /\ graph' = r2.g
    /\ op' = [name |-> name, a |-> a, b |-> b, ret1 |-> r1.ret, ret2 |-> r2.ret]
    /\ used' = used \cup {name}
    /\ nops' = nops + 1
    /\ UNCHANGED <<heap, src, cpy, g2, frame, file>>

AddVertex(a) == Call("addVertex", a, a, G1addVertex(G1, a), G2addVertex(graph, a))

AddVertexCleanly(a) ==
    Call("addVertexCleanly", a, a, G1addVertexCleanly(G1, a), G2addVertexCleanly(graph, a))

DeleteVertex(a) == Call("deleteVertex", a, a, G1deleteVertex(G1, a), G2deleteVertex(graph, a))

AddEdge(a, b) == Call("addEdge", a, b, G1addEdge(G1, a, b), G2addEdge(graph, a, b))

DeleteEdge(a, b) == Call("deleteEdge", a, b, G1deleteEdge(G1, a, b), G2deleteEdge(graph, a, b))

\* isConnected1() and isConnected2() on both graphs, as test(3) and test(4)
\* print them; the graphs are left alone.
IsConnected ==
    /\ op.name # "isConnected"
    /\ op' = [name |-> "isConnected", a |-> 0, b |-> 0,
              ret1 |-> <<G1isConnected1(G1), G1isConnected2(G1)>>,
              ret2 |-> <<G2isConnected1(graph), G2isConnected2(graph)>>]
    /\ UNCHANGED <<vertices, edges, graph, used, nops, heap, src, cpy, g2, frame, file>>

Next ==
    \/ \E a \in Vals : AddVertex(a)
    \/ \E a \in Vals : AddVertexCleanly(a)
    \/ \E a \in Vals : DeleteVertex(a)
    \/ \E a, b \in Vals : AddEdge(a, b)
    \/ \E a, b \in Vals : DeleteEdge(a, b)
    \/ IsConnected

Spec == Init /\ [][Next]_vars

----------------------------------------------------------------------------
(* Construction from small arbitrary arguments and from the graphs of      *)
(* test(3) and test(4), followed by the connectivity queries only.         *)
(* isConnected1 and isConnected2 read the vertex list through a dict and   *)
(* len(), so the list is drawn in non-decreasing order, repeats included.  *)

MaxConnVerts == 3
MaxConnEdges == 3

IsSorted(s) == \A i \in 1..(Len(s) - 1) : s[i] <= s[i + 1]

Scenarios ==
    { <<<<1, 2, 3, 4>>, <<<<1, 2>>, <<2, 3>>, <<2, 4>>, <<1, 4>>>>>>,
      <<<<1, 2, 3, 4, 5, 6>>, <<<<1, 3>>, <<4, 5>>, <<4, 6>>, <<3, 2>>>>>>,
      <<<<0, 1, 2, 3, 4, 5>>,
        <<<<0, 1>>, <<1, 2>>, <<0, 2>>, <<3, 4>>, <<4, 5>>, <<3, 5>>>>>>,
      <<<<0, 1, 2, 3>>, <<<<2, 3>>, <<1, 2>>, <<0, 1>>>>>>,
      <<<<0, 1, 2, 3>>, <<<<0, 1>>, <<2, 3>>, <<1, 2>>, <<0, 3>>>>>> }

InitConn ==
    \/ \E vs \in {s \in SeqsUpTo(Vals, MaxConnVerts) : IsSorted(s)} :
           \E k \in 0..MaxConnEdges : \E es \in EdgeLists(vs, k) : Construct(<<vs, es>>)
    \/ \E in \in Scenarios : Construct(in)

NextConn == IsConnected

SpecConn == InitConn /\ [][NextConn]_vars

\* The vertices reached from the set S along the pairs of E, either way.
RECURSIVE Reach(_, _)
Reach(E, S) ==
    LET T == S \cup {e[2] : e \in {x \in E : x[1] \in S}}
               \cup {e[1] : e \in {x \in E : x[2] \in S}}
    IN  IF T = S THEN S ELSE Reach(E, T)

\* One connected component: V is not empty and every vertex is reached
\* from any one of them.
OneComponent(V, E) == V # {} /\ Reach(E, {CHOOSE v \in V : TRUE}) = V

----------------------------------------------------------------------------
(* Copies.  heap holds the list and dict objects by reference: a Graph1    *)
(* object is [cls, vertices, edges] with the heap indices of its two       *)
(* lists, a Graph2 object [cls, graph] with the index of its dict.  src is *)
(* the graph first built, cpy the graph a copy operation returned.         *)

Classes == {"Graph1", "Graph2"}

\* Number of mutator calls after the copy.
MaxCopyOps == 2

\* cls(vertices, edges), the vertices argument being the list heap[vref].
\* Graph1.__init__ keeps that very list and builds a new list of edges;
\* Graph2.__init__ builds a new dict with new lists.
New(cls, h, vref, es) ==
    IF cls = "Graph1"
    THEN [heap |-> Append(h, G1Init(h[vref], es).edges),
          obj  |-> [cls |-> "Graph1", vertices |-> vref, edges |-> Len(h) + 1],
          ret  |-> "None"]
    ELSE [heap |-> Append(h, G2Init(h[vref], es).g),
          obj  |-> [cls |-> "Graph2", graph |-> Len(h) + 1],
          ret  |-> G2Init(h[vref], es).ret]

\* o.vertices: the attribute of a Graph1 is its list itself; the property
\* of a Graph2 returns a new list of the keys.
VerticesOf(h, o) ==
    IF o.cls = "Graph1"
    THEN [heap |-> h, ref |-> o.vertices]
    ELSE [heap |-> Append(h, G2vertices(h[o.graph])), ref |-> Len(h) + 1]

\* o.edges, by value: every receiver copies it.
EdgesOf(h, o) == IF o.cls = "Graph1" THEN h[o.edges] ELSE G2edges(h[o.graph])

\* cls(g1.vertices, es)
CopyInto(cls, h, g1, es) ==
    LET v == VerticesOf(h, g1)
    IN  New(cls, v.heap, v.ref, es)

\* The orders in which list(set(es)) can list the distinct pairs of es.
DedupOrders(es) ==
    {s \in [1..Cardinality(SeqSet(es)) -> SeqSet(es)] : IsDistinct(s)}

\* What the object holds: vertex list and edge list, or the dict.
View(h, o) ==
    IF o.cls = "Graph1" THEN [vertices |-> h[o.vertices], edges |-> h[o.edges]]
    ELSE IF o.cls = "Graph2" THEN [graph |-> h[o.graph]]
    ELSE [none |-> TRUE]

Apply1(name, g, a, b) ==
    CASE name = "addVertex" -> G1addVertex(g, a)
      [] name = "addVertexCleanly" -> G1addVertexCleanly(g, a)
      [] name = "deleteVertex" -> G1deleteVertex(g, a)
      [] name = "addEdge" -> G1addEdge(g, a, b)
      [] name = "deleteEdge" -> G1deleteEdge(g, a, b)

Apply2(name, d, a, b) ==
    CASE name = "addVertex" -> G2addVertex(d, a)
      [] name = "addVertexCleanly" -> G2addVertexCleanly(d, a)
      [] name = "deleteVertex" -> G2deleteVertex(d, a)
      [] name = "addEdge" -> G2addEdge(d, a, b)
      [] name = "deleteEdge" -> G2deleteEdge(d, a, b)

\* The mutator name called on object o: its lists are changed in place.
\* (deleteVertex binds self.edges to a new list; no other object ever holds
\* a Graph1's edge list, so the cell is overwritten.)
ObjCall(h, o, name, a, b) ==
    IF o.cls = "Graph1"
    THEN LET r == Apply1(name, [vertices |-> h[o.vertices], edges |-> h[o.edges]], a, b)
         IN  [heap |-> [[h EXCEPT ![o.vertices] = r.g.vertices] EXCEPT ![o.edges] = r.g.edges],
              ret  |-> r.ret]
    ELSE LET r == Apply2(name, h[o.graph], a, b)
         IN  [heap |-> [h EXCEPT ![o.graph] = r.g], ret |-> r.ret]

InitCopy ==
    \E vs \in {s \in SeqsUpTo(Vals, MaxInitVerts) : IsDistinct(s)}, cls \in Classes :
      \E k \in 0..MaxInitEdges : \E es \in EdgeLists(vs, k) :
        LET n == New(cls, <<vs>>, 1, es)
        IN  /\ heap = n.heap
            /\ src = n.obj
            /\ cpy = NoObject
            /\ op = [name |-> "init", who |-> "src", ret |-> n.ret]
            /\ nops = 0
            /\ used = {}
            /\ vertices = <<>>
            /\ edges = <<>>
            /\ graph = <<>>
            /\ g2 = NoObject
            /\ frame = NoFrame
            /\ file = NoFile

Copied(name, n) ==
    /\ cpy = NoObject
    /\ heap' = n.heap
    /\ cpy' = n.obj
    /\ op' = [name |-> name, who |-> "src", ret |-> n.ret]
    /\ UNCHANGED <<src, nops, used, vertices, edges, graph, g2, frame, file>>

\* src.copy()
CopyMethod == Copied("copy()", CopyInto(src.cls, heap, src, EdgesOf(heap, src)))

\* cls.copy(src)
FactoryCopy(cls) == Copied("copy", CopyInto(cls, heap, src, EdgesOf(heap, src)))

\* cls.cleancopy(src)
FactoryCleanCopy(cls) ==
    \E es \in DedupOrders(EdgesOf(heap, src)) : Copied("cleancopy", CopyInto(cls, heap, src, es))

\* A mutator call on the source or on the copy.
Mutate(who, name, a, b) ==
    LET r == ObjCall(heap, IF who = "src" THEN src ELSE cpy, name, a, b)
    IN  /\ cpy # NoObject
        /\ nops < MaxCopyOps
        /\ heap' = r.heap
        /\ op' = [name |-> name, who |-> who, ret |-> r.ret]
        /\ nops' = nops + 1
        /\ used' = used \cup {name}
        /\ UNCHANGED <<src, cpy, vertices, edges, graph, g2, frame, file>>

NextCopy ==
    \/ CopyMethod
    \/ \E cls \in Classes : FactoryCopy(cls)
    \/ \E cls \in Classes : FactoryCleanCopy(cls)
    \/ \E who \in {"src", "cpy"}, a \in Vals : Mutate(who, "addVertex", a, a)
    \/ \E who \in {"src", "cpy"}, a \in Vals : Mutate(who, "addVertexCleanly", a, a)
    \/ \E who \in {"src", "cpy"}, a \in Vals : Mutate(who, "deleteVertex", a, a)
    \/ \E who \in {"src", "cpy"}, a, b \in Vals : Mutate(who, "addEdge", a, b)
    \/ \E who \in {"src", "cpy"}, a, b \in Vals : Mutate(who, "deleteEdge", a, b)

SpecCopy == InitCopy /\ [][NextCopy]_vars

----------------------------------------------------------------------------
(* Degrees, and the graphs of the factories complete, path and cycle.  A   *)
(* factory's arguments to cls(verts, edges) are a pair <<verts, edges>>.   *)

\* range(n)
Range(n) == [i \in 1..Max(n, 0) |-> i - 1]

\* [(i, j) for i in range(size) for j in range(i+1, size)], from i on.
RECURSIVE completeEdges(_, _)
completeEdges(size, i) ==
    IF i >= size THEN <<>>
    ELSE [k \in 1..(size - 1 - i) |-> <<i, i + k>>] \o completeEdges(size, i + 1)

complete(size) == <<Range(size), completeEdges(size, 0)>>

path(length) == <<Range(length + 1), [k \in 1..Max(length, 0) |-> <<k - 1, k>>]>>

cycle(length) ==
    <<Range(length),
      [k \in 1..Max(length - 1, 0) |-> <<k - 1, k>>] \o <<<<0, length - 1>>>>>>

G1degree(g, v) == Len(SelectSeq(g.edges, LAMBDA xx : v = xx[1] \/ v = xx[2]))

G1degreeFn(g) == [v \in SeqSet(g.vertices) |-> G1degree(g, v)]

\* Called by degreeFn for keys of the dict only.
G2degree(d, v) == Len(d[v])

G2degreeFn(d) == [v \in DOMAIN d |-> G2degree(d, v)]

\* Largest size or length handed to complete, path and cycle.
MaxSize == 3

\* cls.name(n) on Graph1 and on Graph2: cls(verts, edges) on the factory's
\* arguments.  op keeps the factory, its argument and how each constructor
\* ended.
Factory(name, n, in) ==
    /\ vertices = G1Init(in[1], in[2]).vertices
    /\ edges = G1Init(in[1], in[2]).edges
    /\ graph = G2Init(in[1], in[2]).g
    /\ op = [name |-> name, a |-> n, b |-> n,
             ret1 |-> "None", ret2 |-> G2Init(in[1], in[2]).ret]
    /\ used = {}
    /\ nops = 0
    /\ heap = <<>>
    /\ src = NoObject
    /\ cpy = NoObject
    /\ g2 = NoObject
    /\ frame = NoFrame
    /\ file = NoFile

InitDegree ==
    \E n \in 0..MaxSize :
        \/ Factory("complete", n, complete(n))
        \/ Factory("path", n, path(n))
        \/ Factory("cycle", n, cycle(n))

\* Both graphs exist: no factory call ended in an exception.  (When
\* Graph2.__init__ raises, graph is the dict as far as it was built and no
\* Graph2 object is returned.)
Built == ~(op.name \in {"complete", "path", "cycle"} /\ op.ret2 # "None")

\* degreeFn() on both graphs; the graphs are left alone.
DegreeFn ==
    /\ op.name # "degreeFn"
    /\ op' = [name |-> "degreeFn", a |-> 0, b |-> 0,
              ret1 |-> G1degreeFn(G1), ret2 |-> G2degreeFn(graph)]
    /\ UNCHANGED <<vertices, edges, graph, used, nops, heap, src, cpy, g2, frame, file>>

NextDegree ==
    \/ \E a, b \in Vals : Built /\ AddEdge(a, b)
    \/ \E a, b \in Vals : Built /\ DeleteEdge(a, b)
    \/ \E a \in Vals : Built /\ DeleteVertex(a)
    \/ Built /\ DegreeFn

SpecDegree == InitDegree /\ [][NextDegree]_vars

\* The sum of f over the keys in S.
RECURSIVE SumOver(_, _)
SumOver(f, S) ==
    IF S = {} THEN 0
    ELSE LET x == CHOOSE y \in S : TRUE IN f[x] + SumOver(f, S \ {x})

----------------------------------------------------------------------------
(* joinAtVert and collapseEdge.  src is the argument g1, g2 the argument   *)
(* g2 and cpy the graph the factory returned; all three are of the class   *)
(* the factory is called on.  The graphs live in heap as in the copy runs, *)
(* so that a list one graph hands to another is the same list.  Vertex     *)
(* names run over negative and non-negative integers.  (A dict with a      *)
(* negative key is not iterated in ascending order; the order decides the  *)
(* order of the built lists only, never which vertices and edges they      *)
(* hold.)                                                                  *)

\* Vertex names: -MaxName..MaxName.
MaxName == 1
\* Longest edge list of g1, longest vertex list and edge list of g2.
MaxFactEdges == 2
MaxJoinVerts == 2
MaxJoinEdges == 1

Names == (0 - MaxName)..MaxName

\* max(s) for s not empty
MaxOf(s) == CHOOSE m \in SeqSet(s) : \A x \in SeqSet(s) : x <= m

HasVertexOf(h, o, a) ==
    IF o.cls = "Graph1" THEN InSeq(a, h[o.vertices]) ELSE G2hasVertex(h[o.graph], a)

HasEdgeOf(h, o, a, b) ==
    IF o.cls = "Graph1"
    THEN G1hasEdge([vertices |-> h[o.vertices], edges |-> h[o.edges]], a, b)
    ELSE G2hasEdge(h[o.graph], a, b)

\* What a factory hands back: the new object, or no object when the
\* constructor raised.
Returned(n) ==
    [heap |-> n.heap, obj |-> IF n.ret = "None" THEN n.obj ELSE NoObject, ret |-> n.ret]

Raised(h, exc) == [heap |-> h, obj |-> NoObject, ret |-> exc]

\* cls.joinAtVert(o1, o2, v1, v2)
joinAtVert(cls, h, o1, o2, v1, v2) ==
    LET r1 == VerticesOf(h, o1)
        r2 == VerticesOf(r1.heap, o2)
        verts == r1.ref
        tmpVerts == r2.ref
    IN  IF ~InSeq(v2, r2.heap[tmpVerts]) THEN Raised(r2.heap, "ValueError")
        ELSE LET h1 == [r2.heap EXCEPT ![tmpVerts] = RemoveFirst(@, v2)]
             IN  IF h1[verts] = <<>> THEN Raised(h1, "ValueError")
                 ELSE LET offset == MaxOf(h1[verts]) + 1
                          vertDict == [u \in {v2} \cup SeqSet(h1[tmpVerts]) |->
                                          IF InSeq(u, h1[tmpVerts]) THEN u + offset ELSE v1]
                          es2 == EdgesOf(h1, o2)
                      IN  IF \E i \in 1..Len(es2) : \/ es2[i][1] \notin DOMAIN vertDict
                                                    \/ es2[i][2] \notin DOMAIN vertDict
                          THEN Raised(h1, "KeyError")
                          ELSE LET es == EdgesOf(h1, o1) \o
                                         [i \in 1..Len(es2) |->
                                             <<vertDict[es2[i][1]], vertDict[es2[i][2]]>>]
                                   h2 == Append(h1, h1[verts] \o
                                         [i \in 1..Len(h1[tmpVerts]) |-> vertDict[h1[tmpVerts][i]]])
                               IN  Returned(New(cls, h2, Len(h2), es))

\* cls.collapseEdge(o1, a, b)
collapseEdge(cls, h, o1, a, b) ==
    IF HasEdgeOf(h, o1, a, b)
    THEN LET r == VerticesOf(h, o1)
             verts == r.ref
         IN  IF ~InSeq(b, r.heap[verts]) THEN Raised(r.heap, "ValueError")
             ELSE LET h1 == [r.heap EXCEPT ![verts] = RemoveFirst(@, b)]
                      useEdges == EdgesOf(h1, o1)
                      kept == SelectSeq(useEdges, LAMBDA e : e[1] # b /\ e[2] # b)
                      into == SelectSeq(useEdges, LAMBDA e : e[1] # a /\ e[2] = b)
                      from == SelectSeq(useEdges, LAMBDA e : e[1] = b /\ a # e[2])
                      es == kept \o [i \in 1..Len(into) |-> <<into[i][1], a>>]
                                 \o [i \in 1..Len(from) |-> <<a, from[i][2]>>]
                  IN  Returned(New(cls, h1, verts, es))
    ELSE [heap |-> h, obj |-> o1, ret |-> "None"]

\* g1 = cls(vs1, es1) and g2 = cls(vs2, es2)
TwoGraphs(cls, vs1, es1, vs2, es2) ==
    LET n1 == New(cls, <<vs1>>, 1, es1)
        n2 == New(cls, Append(n1.heap, vs2), Len(n1.heap) + 1, es2)
    IN  /\ heap = n2.heap
        /\ src = n1.obj
        /\ g2 = n2.obj
        /\ cpy = NoObject
        /\ op = [name |-> "init", a |-> 0, b |-> 0, ret |-> "None"]
        /\ nops = 0
        /\ used = {}
        /\ vertices = <<>>
        /\ edges = <<>>
        /\ graph = <<>>
        /\ frame = NoFrame
        /\ file = NoFile

\* Vertex lists are distinct and ascending; edges join vertices of the
\* list, in either orientation, repeats and (v, v) included.  The second
\* disjunct is the graphs of complete(3), path(2) and cycle(3).
InitFactory ==
    \/ \E cls \in Classes :
         \E vs1 \in {s \in SeqsUpTo(Names, 2 * MaxName + 1) : IsSorted(s) /\ IsDistinct(s)} :
           \E k1 \in 0..MaxFactEdges : \E es1 \in EdgeLists(vs1, k1) :
             \E vs2 \in {s \in SeqsUpTo(Names, MaxJoinVerts) : IsSorted(s) /\ IsDistinct(s)} :
               \E k2 \in 0..MaxJoinEdges : \E es2 \in EdgeLists(vs2, k2) :
                 TwoGraphs(cls, vs1, es1, vs2, es2)
    \/ \E cls \in Classes : \E in1, in2 \in {complete(3), path(2), cycle(3)} :
         TwoGraphs(cls, in1[1], in1[2], in2[1], in2[2])

FactoryCall(name, a, b, r) ==
    /\ op.name = "init"
    /\ heap' = r.heap
    /\ cpy' = r.obj
    /\ op' = [name |-> name, a |-> a, b |-> b, ret |-> r.ret]
    /\ UNCHANGED <<src, g2, nops, used, vertices, edges, graph, frame, file>>

JoinAtVert(v1, v2) ==
    FactoryCall("joinAtVert", v1, v2, joinAtVert(src.cls, heap, src, g2, v1, v2))

CollapseEdge(a, b) ==
    FactoryCall("collapseEdge", a, b, collapseEdge(src.cls, heap, src, a, b))

NextFactory ==
    \/ \E v1, v2 \in Names : JoinAtVert(v1, v2)
    \/ \E a, b \in Names : CollapseEdge(a, b)

SpecFactory == InitFactory /\ [][NextFactory]_vars

\* The vertex set and the set of (min, max) pairs the object answers with.
VertexSetOf(h, o) ==
    IF o.cls = "Graph1" THEN SeqSet(h[o.vertices]) ELSE DOMAIN h[o.graph]

EdgeSetOf(h, o) == SeqSet(EdgesOf(h, o))

----------------------------------------------------------------------------
(* fromFile.  file is what the name given to fromFile stands for: a        *)
(* missing or unreadable file, or the lines of a readable one, each a      *)
(* sequence of characters without its line end.  A token is an integer     *)
(* when int() accepts it: here, a non-empty run of digits.                 *)

\* Longest line and largest number of lines of a file.
MaxLineLen == 3
MaxLines == 2

Chars == {"1", "2", " ", "x"}

DigitValue == [c \in {"1", "2"} |-> IF c = "1" THEN 1 ELSE 2]

\* ll.strip()
strip(ll) ==
    LET inked == {i \in 1..Len(ll) : ll[i] # " "}
    IN  IF inked = {} THEN <<>>
        ELSE SubSeq(ll, CHOOSE i \in inked : \A j \in inked : i <= j,
                        CHOOSE i \in inked : \A j \in inked : i >= j)

\* ss.split(" "): the pieces between single spaces, empty ones included.
RECURSIVE split(_)
split(ss) ==
    IF ~InSeq(" ", ss) THEN <<ss>>
    ELSE LET i == CHOOSE k \in 1..Len(ss) : ss[k] = " " /\ \A j \in 1..(k-1) : ss[j] # " "
         IN  <<SubSeq(ss, 1, i - 1)>> \o split(SubSeq(ss, i + 1, Len(ss)))

\* int(tok) returns for these tokens and raises ValueError for the others.
IsInt(tok) == Len(tok) > 0 /\ \A i \in 1..Len(tok) : tok[i] \in DOMAIN DigitValue

RECURSIVE int(_)
int(tok) ==
    IF Len(tok) = 0 THEN 0
    ELSE 10 * int(SubSeq(tok, 1, Len(tok) - 1)) + DigitValue[tok[Len(tok)]]

\* The for loop of fromFile over the lines, from line i on.
RECURSIVE fromFileLoop(_, _, _, _)
fromFileLoop(lines, i, es, verts) ==
    IF i > Len(lines) THEN [verts |-> verts, edges |-> es, ret |-> "None"]
    ELSE LET ls == split(strip(lines[i]))
         IN  IF Len(ls) = 2
             THEN IF IsInt(ls[1]) /\ IsInt(ls[2])
                  THEN fromFileLoop(lines, i + 1, Append(es, <<int(ls[1]), int(ls[2])>>),
                                    verts \cup {int(ls[1]), int(ls[2])})
                  ELSE [verts |-> verts, edges |-> es, ret |-> "ValueError"]
             ELSE fromFileLoop(lines, i + 1, es, verts)

\* The arguments fromFile hands to cls, or the exception that leaves it.
\* open() raises IOError for a missing file, which fromFile catches.
fromFile(f) ==
    IF f.state = "missing" THEN [verts |-> <<>>, edges |-> <<>>, ret |-> "None"]
    ELSE LET r == fromFileLoop(f.lines, 1, <<>>, {})
         IN  [verts |-> SortedKeys(r.verts), edges |-> r.edges, ret |-> r.ret]

Lines == SeqsUpTo(Chars, MaxLineLen)

\* No graph exists before the call.
InitFile ==
    /\ \/ file = [state |-> "missing"]
       \/ \E k \in 0..MaxLines : \E ls \in [1..k -> Lines] :
              file = [state |-> "readable", lines |-> ls]
    /\ op = [name |-> "init", a |-> 0, b |-> 0, ret1 |-> "None", ret2 |-> "None"]
    /\ vertices = <<>>
    /\ edges = <<>>
    /\ graph = <<>>
    /\ used = {}
    /\ nops = 0
    /\ heap = <<>>
    /\ src = NoObject
    /\ cpy = NoObject
    /\ g2 = NoObject
    /\ frame = NoFrame

\* Graph1.fromFile(fileName) and Graph2.fromFile(fileName) on the same file.
FromFile ==
    LET r == fromFile(file)
    IN  /\ op.name = "init"
        /\ IF r.ret = "None"
           THEN /\ vertices' = G1Init(r.verts, r.edges).vertices
                /\ edges' = G1Init(r.verts, r.edges).edges
                /\ graph' = G2Init(r.verts, r.edges).g
                /\ op' = [name |-> "fromFile", a |-> 0, b |-> 0,
                          ret1 |-> "None", ret2 |-> G2Init(r.verts, r.edges).ret]
           ELSE /\ op' = [name |-> "fromFile", a |-> 0, b |-> 0,
                          ret1 |-> r.ret, ret2 |-> r.ret]
                /\ UNCHANGED <<vertices, edges, graph>>
        /\ UNCHANGED <<used, nops, heap, src, cpy, g2, frame, file>>

NextFile == FromFile

SpecFile == InitFile /\ [][NextFile]_vars

\* The line is one edge: exactly two tokens, both integers.
IsEdgeLine(ll) ==
    LET ls == split(strip(ll))
    IN  Len(ls) = 2 /\ IsInt(ls[1]) /\ IsInt(ls[2])

----------------------------------------------------------------------------
(* One call of isConnected1 or isConnected2, step by step.  frame holds    *)
(* the locals of the running call: the method, buckets, valuesCnt (0 in    *)
(* isConnected1, which has none), change, the list items the for loop      *)
(* runs over and the position i in it (0 at the "while change" test).      *)
(* atTest is buckets as it was at the last while test.                     *)

\* Longest vertex list and edge list of the graphs the calls run on.
MaxPassVerts == 3
MaxPassEdges == 2

Methods == {"Graph1.isConnected1", "Graph1.isConnected2",
            "Graph2.isConnected1", "Graph2.isConnected2"}

UnionFind == {"Graph1.isConnected2", "Graph2.isConnected2"}

InitPass ==
    \/ \E vs \in {s \in SeqsUpTo(Vals, MaxPassVerts) : IsSorted(s) /\ IsDistinct(s)} :
           \E k \in 0..MaxPassEdges : \E es \in EdgeLists(vs, k) : Construct(<<vs, es>>)
    \/ \E in \in Scenarios : Construct(in)

\* What the for loop of the method runs over: the edges, the keys of the
\* dict, or the (u, v) of the two nested loops.  The graph is not changed
\* while the method runs, so every pass runs over the same list.
LoopItems(method) ==
    CASE method \in {"Graph1.isConnected1", "Graph1.isConnected2"} -> edges
      [] method = "Graph2.isConnected1" -> SortedKeys(DOMAIN graph)
      [] method = "Graph2.isConnected2" -> G2arcsFrom(graph, SortedKeys(DOMAIN graph), 1)

\* The statements before the loop: buckets, valuesCnt, change = True.
Begin(method) ==
    /\ op.name = "init"
    /\ frame = NoFrame
    /\ LET b == IF method \in {"Graph1.isConnected1", "Graph1.isConnected2"}
                THEN [v \in SeqSet(vertices) |-> v]
                ELSE [v \in DOMAIN graph |-> v]
       IN  frame' = [method    |-> method,
                     buckets   |-> b,
                     valuesCnt |-> IF method = "Graph1.isConnected2" THEN Len(vertices)
                                   ELSE IF method = "Graph2.isConnected2"
                                   THEN Cardinality(DOMAIN graph)
                                   ELSE 0,
                     change    |-> TRUE,
                     items     |-> LoopItems(method),
                     i         |-> 0,
                     atTest    |-> b]
    /\ UNCHANGED <<vertices, edges, graph, op, used, nops, heap, src, cpy, g2, file>>

\* "while change" finds change true and the body starts; c is the value
\* of change when the for loop is reached.
WhileTest(c) ==
    /\ frame # NoFrame
    /\ frame.i = 0
    /\ frame.change
    /\ frame' = [frame EXCEPT !.change = c,
                              !.i = IF frame.items = <<>> THEN 0 ELSE 1,
                              !.atTest = frame.buckets]
    /\ UNCHANGED <<vertices, edges, graph, op, used, nops, heap, src, cpy, g2, file>>

\* A loop body that lacks its first statement "change = False".
EnterPassKeepingChange == WhileTest(frame.change)

\* The body starts with change = False.
EnterPass == WhileTest(FALSE)

\* Iteration i of the for loop of the running method.
Iteration(f) ==
    LET item == <<f.items[f.i]>>
    IN  CASE f.method = "Graph1.isConnected1" ->
                LET r == G1Pass1(f.buckets, item, 1, f.change)
                IN  [buckets |-> r.buckets, valuesCnt |-> 0, change |-> r.change, ret |-> r.ret]
          [] f.method = "Graph1.isConnected2" ->
                G1Pass2(f.buckets, f.valuesCnt, item, 1, f.change)
          [] f.method = "Graph2.isConnected1" ->
                LET r == G2Pass1(f.buckets, graph, item, 1, f.change)
                IN  [buckets |-> r.buckets, valuesCnt |-> 0, change |-> r.change, ret |-> r.ret]
          [] f.method = "Graph2.isConnected2" ->
                G2Pass2(f.buckets, f.valuesCnt, item, 1, f.change)

\* One iteration of the for loop; after the last one control is back at
\* the while test.  A KeyError leaves the method.
Iterate ==
    /\ frame # NoFrame
    /\ frame.i > 0
    /\ LET r == Iteration(frame)
       IN  IF r.ret = "None"
           THEN /\ frame' = [frame EXCEPT !.buckets = r.buckets,
                                          !.valuesCnt = r.valuesCnt,
                                          !.change = r.change,
                                          !.i = IF frame.i = Len(frame.items)
                                                THEN 0 ELSE frame.i + 1]
                /\ op' = op
           ELSE /\ frame' = NoFrame
                /\ op' = [name |-> frame.method, ret |-> r.ret]
    /\ UNCHANGED <<vertices, edges, graph, used, nops, heap, src, cpy, g2, file>>

\* "while change" finds change false and the method returns.
Return ==
    /\ frame # NoFrame
    /\ frame.i = 0
    /\ ~frame.change
    /\ op' = [name |-> frame.method,
              ret  |-> IF frame.method \in UnionFind THEN Bool(frame.valuesCnt = 1)
                       ELSE Bool(Cardinality(Labels(frame.buckets)) = 1)]
    /\ frame' = NoFrame
    /\ UNCHANGED <<vertices, edges, graph, used, nops, heap, src, cpy, g2, file>>

NextPass ==
    \/ \E method \in Methods : Begin(method)
    \/ EnterPass
    \/ Iterate
    \/ Return

SpecPass == InitPass /\ [][NextPass]_vars

\* The interpreter runs the call on: no step that can be taken is put off
\* for ever.
SpecPassLive == SpecPass /\ WF_vars(NextPass)

\* The vertices that are their own parent.
Roots(buckets) == {v \in DOMAIN buckets : buckets[v] = v}

\* Following the parent links from v reaches a root within n links.
RECURSIVE ReachesRoot(_, _, _)
ReachesRoot(buckets, v, n) ==
    \/ buckets[v] = v
    \/ n > 0 /\ buckets[v] \in DOMAIN buckets /\ ReachesRoot(buckets, buckets[v], n - 1)

\* No cycle of parent links but the self-links of the roots.
NoParentCycle(buckets) ==
    \A v \in DOMAIN buckets : ReachesRoot(buckets, v, Cardinality(DOMAIN buckets))

\* The number of distinct labels (isConnected1) or of roots (isConnected2).
Components(method, buckets) ==
    IF method \in UnionFind THEN Cardinality(Roots(buckets))
    ELSE Cardinality(Labels(buckets))

----------------------------------------------------------------------------
(* Properties *)

Mutators == {"addVertex", "addVertexCleanly", "addEdge", "deleteEdge", "deleteVertex"}

\* The step is a call of the mutator name.
Called(name) == nops' = nops + 1 /\ op'.name = name

\* d[x] without its entries equal to a.
Without(s, a) == SelectSeq(s, LAMBDA y : y # a)

\* C1: a Graph1 and a Graph2 built from the same arguments and given the
\* same addVertexCleanly, addEdge, deleteEdge and deleteVertex calls answer
\* every call alike, hold the same vertex set and agree on hasEdge(a, b) for
\* every pair.
C1_SameBehaviour ==
    "addVertex" \notin used =>
        /\ op.name \in Mutators => op.ret1 = op.ret2
        /\ SeqSet(vertices) = DOMAIN graph
        /\ \A a, b \in Vals : G1hasEdge(G1, a, b) = G2hasEdge(graph, a, b)

\* C2: on every graph reached by construction and mutator calls,
\* isConnected1() and isConnected2() return the same boolean, on the Graph1
\* and on the Graph2.
C2_AlgorithmsAgree ==
    op.name = "isConnected" =>
        /\ op.ret1[1] \in {"True", "False"} /\ op.ret1[1] = op.ret1[2]
        /\ op.ret2[1] \in {"True", "False"} /\ op.ret2[1] = op.ret2[2]

\* C3: the Graph1 and the Graph2 built from the same arguments (edge
\* endpoints among the vertices) return the same value from isConnected1()
\* and the same value from isConnected2().
C3_RepresentationsAgree ==
    op.name = "isConnected" => op.ret1[1] = op.ret2[1] /\ op.ret1[2] = op.ret2[2]

\* C4: on a graph with distinct vertices whose edge endpoints are vertices,
\* both algorithms on both representations return true exactly when the
\* vertex set is not empty and forms one connected component.
C4_ConnectedIffOneComponent ==
    (op.name = "isConnected" /\ IsDistinct(vertices)) =>
        LET c == Bool(OneComponent(SeqSet(vertices), SeqSet(edges)))
        IN  op.ret1 = <<c, c>> /\ op.ret2 = <<c, c>>

\* Two disjoint triangles have been asked and both algorithms said false on
\* both representations.
C4_Witness ==
    /\ op.name = "isConnected"
    /\ vertices = <<0, 1, 2, 3, 4, 5>>
    /\ Len(edges) = 6
    /\ op.ret1 = <<"False", "False">>
    /\ op.ret2 = <<"False", "False">>

\* C5: addEdge(a, b) returns true exactly when hasEdge(a, b) was false; a
\* true call leaves both endpoints vertices and (a, b) an edge and grows the
\* size by the number of distinct endpoints that were not vertices; a false
\* call changes nothing.
C5_AddEdgeContract ==
    [][Called("addEdge") =>
        LET a == op'.a
            b == op'.b
        IN  /\ (op'.ret1 = "True") <=> ~G1hasEdge(G1, a, b)
            /\ (op'.ret2 = "True") <=> ~G2hasEdge(graph, a, b)
            /\ op'.ret1 = "True" =>
                  /\ G1hasVertex(G1', a) /\ G1hasVertex(G1', b) /\ G1hasEdge(G1', a, b)
                  /\ G1len(G1') = G1len(G1) + Cardinality({a, b} \ SeqSet(vertices))
            /\ op'.ret2 = "True" =>
                  /\ G2hasVertex(graph', a) /\ G2hasVertex(graph', b)
                  /\ G2hasEdge(graph', a, b)
                  /\ G2len(graph') = G2len(graph) + Cardinality({a, b} \ DOMAIN graph)
            /\ op'.ret1 = "False" => vertices' = vertices /\ edges' = edges
            /\ op'.ret2 = "False" => graph' = graph]_vars

\* C6: after addEdge(a, b) returned true, hasEdge(a, b) and hasEdge(b, a)
\* are true; after a deleteEdge(a, b) that follows at once, both are false.
C6_AddThenDelete ==
    [][/\ Called("addEdge") =>
            /\ op'.ret1 = "True" =>
                  G1hasEdge(G1', op'.a, op'.b) /\ G1hasEdge(G1', op'.b, op'.a)
            /\ op'.ret2 = "True" =>
                  G2hasEdge(graph', op'.a, op'.b) /\ G2hasEdge(graph', op'.b, op'.a)
       /\ (op.name = "addEdge" /\ Called("deleteEdge") /\ op'.a = op.a /\ op'.b = op.b) =>
            /\ op.ret1 = "True" =>
                  ~G1hasEdge(G1', op.a, op.b) /\ ~G1hasEdge(G1', op.b, op.a)
            /\ op.ret2 = "True" =>
                  ~G2hasEdge(graph', op.a, op.b) /\ ~G2hasEdge(graph', op.b, op.a)]_vars

\* C7: deleteVertex(a) for a not a vertex, and deleteEdge(a, b) for (a, b)
\* not an edge, return normally and change nothing.
C7_AbsentDeleteIsNoOp ==
    [][/\ (Called("deleteVertex") /\ ~G1hasVertex(G1, op'.a)) =>
            op'.ret1 = "None" /\ vertices' = vertices /\ edges' = edges
       /\ (Called("deleteVertex") /\ ~G2hasVertex(graph, op'.a)) =>
            op'.ret2 = "None" /\ graph' = graph
       /\ (Called("deleteEdge") /\ ~G1hasEdge(G1, op'.a, op'.b)) =>
            op'.ret1 = "None" /\ vertices' = vertices /\ edges' = edges
       /\ (Called("deleteEdge") /\ ~G2hasEdge(graph, op'.a, op'.b)) =>
            op'.ret2 = "None" /\ graph' = graph]_vars

\* C8: in a state reached through the constructor, addEdge,
\* addVertexCleanly and deleteEdge, deleteVertex(a) on a present vertex
\* leaves no edge incident to a and keeps every other edge.
C8_DeleteVertexCascade ==
    [][(Called("deleteVertex") /\ used \subseteq {"addEdge", "addVertexCleanly", "deleteEdge"}) =>
        LET a == op'.a
        IN  /\ G1hasVertex(G1, a) =>
                  /\ \A i \in 1..Len(edges') : edges'[i][1] # a /\ edges'[i][2] # a
                  /\ edges' = SelectSeq(edges, LAMBDA ee : ee[1] # a /\ ee[2] # a)
            /\ G2hasVertex(graph, a) =>
                  /\ a \notin DOMAIN graph'
                  /\ \A x \in DOMAIN graph' : ~InSeq(a, graph'[x])
                  /\ \A x \in Vals : ~G2hasEdge(graph', x, a)
                  /\ DOMAIN graph' = (DOMAIN graph) \ {a}
                  /\ \A x \in DOMAIN graph' : Without(graph'[x], a) = Without(graph[x], a)]_vars

\* C9: a graph returned by copy(), cls.copy or cls.cleancopy shares no
\* mutable container with its source: a mutator call on the copy leaves
\* what the source holds unchanged, and a call on the source leaves the copy
\* unchanged.
C9_CopyIndependent ==
    [][(cpy # NoObject /\ nops' = nops + 1) =>
        /\ op'.who = "cpy" => View(heap', src') = View(heap, src)
        /\ op'.who = "src" => View(heap', cpy') = View(heap, cpy)]_vars

\* C10: hasEdge(a, b) equals hasEdge(b, a) for all a, b on both
\* representations, and every pair stored by the Graph1 has its smaller
\* endpoint first.
C10_Symmetry ==
    /\ \A a, b \in Vals : G1hasEdge(G1, a, b) = G1hasEdge(G1, b, a)
    /\ \A a, b \in Vals : G2hasEdge(graph, a, b) = G2hasEdge(graph, b, a)
    /\ \A i \in 1..Len(edges) : edges[i][1] <= edges[i][2]

\* C11: in a graph built by a factory and changed by addEdge, deleteEdge
\* and deleteVertex, the degrees degreeFn() reports add up to twice the
\* number of distinct edges, on the Graph1 and on the Graph2.
C11_DegreeSum ==
    op.name = "degreeFn" =>
        /\ SumOver(op.ret1, DOMAIN op.ret1) = 2 * Cardinality(SeqSet(edges))
        /\ SumOver(op.ret2, DOMAIN op.ret2) = 2 * Cardinality(SeqSet(G2edges(graph)))

\* C12: for a # b, collapseEdge(g1, a, b) on an edge (a, b) of g1 returns a
\* graph whose vertex set is that of g1 without b, that keeps every edge of
\* g1 not incident to b, has an edge (u, a) for every edge (u, b) of g1 with
\* u other than a and b, and has neither the vertex b, nor an edge incident
\* to b, nor the self-loop (a, a); when (a, b) is not an edge it returns g1
\* itself, unchanged.
C12_CollapseEdge ==
    [][(op'.name = "collapseEdge" /\ op'.a # op'.b) =>
        LET a == op'.a
            b == op'.b
            V == VertexSetOf(heap, src)
            E == EdgeSetOf(heap, src)
        IN  IF HasEdgeOf(heap, src, a, b)
            THEN /\ op'.ret = "None"
                 /\ VertexSetOf(heap', cpy') = V \ {b}
                 /\ \A e \in E : (e[1] # b /\ e[2] # b) => e \in EdgeSetOf(heap', cpy')
                 /\ \A u \in V \ {a, b} :
                        <<Min(u, b), Max(u, b)>> \in E => HasEdgeOf(heap', cpy', u, a)
                 /\ ~HasVertexOf(heap', cpy', b)
                 /\ \A e \in EdgeSetOf(heap', cpy') : e[1] # b /\ e[2] # b
                 /\ \A x \in V : ~HasEdgeOf(heap', cpy', x, b) /\ ~HasEdgeOf(heap', cpy', b, x)
                 /\ ~HasEdgeOf(heap', cpy', a, a)
            ELSE /\ op'.ret = "None"
                 /\ cpy' = src
                 /\ View(heap', src) = View(heap, src)]_vars

\* C13: for g1 and g2 with distinct vertices, v1 a vertex of g1 and v2 a
\* vertex of g2, joinAtVert(g1, g2, v1, v2) returns a graph with exactly
\* |V(g1)| + |V(g2)| - 1 distinct vertices, and a connected one when g1 and
\* g2 are both connected.
C13_JoinAtVert ==
    [][(/\ op'.name = "joinAtVert"
        /\ HasVertexOf(heap, src, op'.a)
        /\ HasVertexOf(heap, g2, op'.b)) =>
        LET V1 == VertexSetOf(heap, src)
            V2 == VertexSetOf(heap, g2)
        IN  /\ op'.ret = "None"
            /\ Cardinality(VertexSetOf(heap', cpy')) = Cardinality(V1) + Cardinality(V2) - 1
            /\ (OneComponent(V1, EdgeSetOf(heap, src)) /\ OneComponent(V2, EdgeSetOf(heap, g2)))
                  => OneComponent(VertexSetOf(heap', cpy'), EdgeSetOf(heap', cpy'))]_vars

\* C14: for every length >= 0, cycle(length) returns, on both
\* representations, a graph with exactly the vertices 0..length-1 whose
\* edges join vertices of the graph, none of them a self-loop; for
\* length <= 1 the graph has no edge.
C14_CycleWellFormed ==
    op.name = "cycle" =>
        LET length == op.a
        IN  /\ op.ret1 = "None"
            /\ op.ret2 = "None"
            /\ vertices = Range(length)
            /\ DOMAIN graph = 0..(length - 1)
            /\ \A i \in 1..Len(edges) :
                   /\ edges[i][1] \in SeqSet(vertices)
                   /\ edges[i][2] \in SeqSet(vertices)
                   /\ edges[i][1] # edges[i][2]
            /\ \A v \in DOMAIN graph : \A j \in 1..Len(graph[v]) :
                   graph[v][j] \in DOMAIN graph /\ graph[v][j] # v
            /\ length <= 1 =>
                   edges = <<>> /\ \A v \in DOMAIN graph : graph[v] = <<>>

\* C15: fromFile returns to its caller on every file, and returns a graph
\* with no vertex and no edge when the file is missing or unreadable and
\* when a line of it is malformed (is not two integers).
C15_FromFileNeverFails ==
    op.name = "fromFile" =>
        /\ op.ret1 = "None"
        /\ op.ret2 = "None"
        /\ (\/ file.state = "missing"
            \/ \E i \in 1..Len(file.lines) : ~IsEdgeLine(file.lines[i])) =>
               vertices = <<>> /\ edges = <<>> /\ DOMAIN graph = {}

\* C16: on a graph whose edge endpoints are all vertices, every call of
\* isConnected1 and isConnected2 on either representation returns: a pass
\* of the outer loop that ends with change set leaves strictly fewer
\* distinct labels (isConnected1) or roots (isConnected2) than it found at
\* its start, the parent links of isConnected2 never form a cycle other
\* than the self-link of a root, and every call that was entered reaches a
\* pass without change and returns a boolean.
C16_Terminates ==
    /\ [][(frame # NoFrame /\ frame' # NoFrame /\ frame'.i = 0 /\ frame'.change) =>
            Components(frame.method, frame'.buckets)
                < Components(frame.method, frame'.atTest)]_vars
    /\ []((frame # NoFrame /\ frame.method \in UnionFind) => NoParentCycle(frame.buckets))
    /\ [](op.name \in Methods => op.ret \in {"True", "False"})
    /\ ((frame # NoFrame) ~> (frame = NoFrame /\ op.name \in Methods))

\* A call of isConnected2 on a Graph1 of three vertices has returned true:
\* a pass merged roots and a later pass found nothing to change.
C16_Witness ==
    /\ op.name = "Graph1.isConnected2"
    /\ op.ret = "True"
    /\ Len(vertices) = 3
    /\ frame = NoFrame

\* C17: joinAtVert(g1, g2, v1, v2) and collapseEdge(g1, a, b) leave their
\* argument graphs as they were: g1 and g2 hold the same vertices and edges
\* after the call as before it.
C17_ArgumentsUnchanged ==
    [][op'.name \in {"joinAtVert", "collapseEdge"} =>
        /\ View(heap', src') = View(heap, src)
        /\ View(heap', g2') = View(heap, g2)]_vars

====
